---- MODULE Spec2Model ----
(***************************************************************************)
(* Average hash (src/average.go): Compute reduces an image to an 8x8 grid, *)
(* computeMean averages the red intensities of the grid and computeHash    *)
(* sets bit i of a 64-bit word when pixel i (row-major) exceeds the mean.  *)
(*                                                                         *)
(* A behaviour is two successive calls of Compute: the first on an image   *)
(* drawn from a family of patterns, the second on a related image (the     *)
(* same reds with other green/blue values and other original dimensions,   *)
(* or the reds remapped by r -> gain*r + offset).  Each loop iteration of  *)
(* computeMean and computeHash is one step.                                *)
(***************************************************************************)
EXTENDS Integers, Sequences, FiniteSets

\* ------------------------------------------------------------------ bounds
MaxOrigin == 1      \* Min.X and Min.Y of the bounding rectangle range over 0..MaxOrigin
MaxGain == 2        \* contrast factor of the second image, 1..MaxGain
MaxShift == 1       \* brightness shift of the second image, -MaxShift..MaxShift
MaxTint == 1        \* green/blue displacement of the second image, 0..MaxTint

\* --------------------------------------------------------------- constants
Size == 8                  \* resize(img, 8, 8)
MaxIntensity == 65535      \* RGBA() returns channels in 0..0xffff
HashBits == 64             \* uint64

Cells == 0..(Size * Size - 1)
BitPos == 0..(HashBits - 1)
Levels == {0, 1, 2, MaxIntensity \div 2, MaxIntensity}
DotCells == {0, Size - 1, Size, Size * Size - 1}
Patterns == {"solid", "checker", "rows", "cols", "ramp", "dot"}

\* ------------------------------------------------------------------ images
\* An image.Image: its bounding rectangle and what At(x, y).RGBA() returns.
\* The content is a pattern over the 8x8 cell grid of the rectangle.
Base(img, cx, cy) ==
    LET i == cy * Size + cx IN
    CASE img.pat = "solid"   -> img.lo
      [] img.pat = "checker" -> IF (cx + cy) % 2 = 1 THEN img.hi ELSE img.lo
      [] img.pat = "rows"    -> IF cy % 2 = 1 THEN img.hi ELSE img.lo
      [] img.pat = "cols"    -> IF cx % 2 = 1 THEN img.hi ELSE img.lo
      [] img.pat = "ramp"    -> img.lo + ((img.hi - img.lo) * i) \div (Size * Size - 1)
      [] img.pat = "dot"     -> IF i = img.k THEN img.hi ELSE img.lo

Bounds(img) == [MinX |-> img.minX, MinY |-> img.minY, MaxX |-> img.maxX, MaxY |-> img.maxY]

InRect(img, x, y) == img.minX <= x /\ x < img.maxX /\ img.minY <= y /\ y < img.maxY

\* img.At(x, y).RGBA(): <<r, g, b, a>>; the zero colour outside the rectangle.
At(img, x, y) ==
    IF ~InRect(img, x, y) THEN <<0, 0, 0, 0>>
    ELSE LET r == img.gain * Base(img, x - img.minX, y - img.minY) + img.offset IN
         <<r, (r + img.tint) % (MaxIntensity + 1),
              (r + 2 * img.tint) % (MaxIntensity + 1), MaxIntensity>>

\* resize(img, w, h): an image of the requested dimensions at the same origin;
\* an image without pixels stays without pixels in that direction.
resize(img, w, h) ==
    [img EXCEPT !.maxX = img.minX + (IF img.maxX > img.minX THEN w ELSE 0),
                !.maxY = img.minY + (IF img.maxY > img.minY THEN h ELSE 0)]

\* grayscale(img): the pixels keep the red intensity that Compute reads.
grayscale(img) == img

\* ------------------------------------------------------------- arithmetic
\* uint32(v) for 0 <= v < 2^31, computed on 16-bit halves.
Uint32(v) == (v % 65536) + 65536 * ((v \div 65536) % 65536)

Uint16(v) == v % 65536

AddU16(m, r) == Uint16(m + r)

\* var r, m uint32; m += r
AddU32(m, r) == Uint32(m + r)

PixelCountWide(w, h) == Uint32((w + 1) * h)

\* c := uint32(w * h)
PixelCount(w, h) == Uint32(w * h)

NeverZero(c) == FALSE

\* if c == 0
IsZero(c) == c = 0

DivRound(m, c) == (m + c \div 2) \div c

DivCeil(m, c) == (m + c - 1) \div c

\* m / c
Div(m, c) == m \div c

ReadG(img, x, y) == At(img, x, y)[2]

\* r, _, _, _ = img.At(x, y).RGBA()
ReadR(img, x, y) == At(img, x, y)[1]

LessEq(v, max) == v <= max

\* loop conditions y < rect.Max.Y and x < rect.Max.X
Less(v, max) == v < max

GreaterEq(r, mean) == r >= mean

\* if r > mean
Greater(r, mean) == r > mean

\* A uint64 as its 64 bits, bit 0 the least significant.
Zero64 == [i \in BitPos |-> FALSE]

Shl1Reversed(bit) == [i \in BitPos |-> i = HashBits - 1 - bit]

\* 1 << bit; a shift count of 64 or more gives 0.
Shl1(bit) == [i \in BitPos |-> i = bit]

\* value | mask
Or64(a, b) == [i \in BitPos |-> a[i] \/ b[i]]

\* ------------------------------------------------------------------ inputs
FirstImages ==
    { [minX |-> ox, minY |-> oy, maxX |-> ox + w, maxY |-> oy + h,
       pat |-> p, k |-> k, lo |-> lo, hi |-> hi,
       gain |-> 1, offset |-> 0, tint |-> 0] :
        ox \in 0..MaxOrigin, oy \in 0..MaxOrigin,
        w \in {0, 2 * Size}, h \in {0, 2 * Size},
        p \in Patterns, k \in DotCells, lo \in Levels, hi \in Levels }

WellFormed(img) ==
    /\ img.minX * img.minY = 0
    /\ img.pat # "dot" => img.k = 0
    /\ img.pat = "solid" => img.hi = img.lo
    /\ img.pat # "solid" => img.hi # img.lo

InRange(img) ==
    \A cx \in 0..(Size - 1), cy \in 0..(Size - 1) :
        img.gain * Base(img, cx, cy) + img.offset \in 0..MaxIntensity

\* The same picture at t+1 times the size, green and blue displaced by t.
Recolour(img, t) ==
    [img EXCEPT !.tint = t,
                !.maxX = img.minX + (t + 1) * (img.maxX - img.minX),
                !.maxY = img.minY + (t + 1) * (img.maxY - img.minY)]

\* The same picture with every red r replaced by a * r + d.
Remap(img, a, d) == [img EXCEPT !.gain = a, !.offset = d]

SecondImages(img) ==
    { Recolour(img, t) : t \in 0..MaxTint }
      \cup { s \in { Remap(img, a, d) : a \in 1..MaxGain, d \in (0 - MaxShift)..MaxShift } :
                InRange(s) }

\* ------------------------------------------------------------------- state
VARIABLES
    call,     \* 1 or 2: which call of Compute is running
    inputs,   \* the images handed to the calls so far
    img,      \* Compute's img
    pc,       \* position in Compute / computeMean / computeHash
    x, y,     \* loop variables of the running function
    c, m,     \* computeMean: pixel count and accumulator
    mean,     \* Compute's mean
    bit,      \* computeHash: bit position counter
    value,    \* computeHash: accumulated hash
    hashes    \* the values returned by the calls so far

vars == <<call, inputs, img, pc, x, y, c, m, mean, bit, value, hashes>>

Init ==
    /\ \E i \in FirstImages : WellFormed(i) /\ inputs = <<i>>
    /\ img = inputs[1]
    /\ call = 1
    /\ pc = "Compute"
    /\ x = 0 /\ y = 0 /\ c = 0 /\ m = 0 /\ mean = 0 /\ bit = 0
    /\ value = Zero64
    /\ hashes = <<>>

\* Compute: img = resize(img, 8, 8); img = grayscale(img); call computeMean.
ComputeEnter ==
    /\ pc = "Compute"
    /\ img' = grayscale(resize(img, Size, Size))
    /\ pc' = "computeMean"
    /\ UNCHANGED <<call, inputs, x, y, c, m, mean, bit, value, hashes>>

\* computeMean up to the first loop test: the pixel count and the zero check.
MeanEnter ==
    /\ pc = "computeMean"
    /\ LET rect == Bounds(img)
           w == rect.MaxX - rect.MinX
           h == rect.MaxY - rect.MinY
           cnt == PixelCount(w, h)
       IN /\ c' = cnt
          /\ IF IsZero(cnt)
             THEN /\ mean' = 0
                  /\ pc' = "computeHash"
                  /\ UNCHANGED <<x, y>>
             ELSE /\ pc' = "mean_loop"
                  /\ y' = rect.MinY
                  /\ x' = rect.MinX
                  /\ UNCHANGED mean
    /\ UNCHANGED <<call, inputs, img, m, bit, value, hashes>>

\* One iteration of the inner loop of computeMean.
MeanStep ==
    /\ pc = "mean_loop"
    /\ Less(y, Bounds(img).MaxY)
    /\ Less(x, Bounds(img).MaxX)
    /\ m' = AddU32(m, ReadR(img, x, y))
    /\ x' = x + 1
    /\ UNCHANGED <<call, inputs, img, pc, y, c, mean, bit, value, hashes>>

\* The inner loop of computeMean ends: next row.
MeanNextRow ==
    /\ pc = "mean_loop"
    /\ Less(y, Bounds(img).MaxY)
    /\ ~Less(x, Bounds(img).MaxX)
    /\ y' = y + 1
    /\ x' = Bounds(img).MinX
    /\ UNCHANGED <<call, inputs, img, pc, c, m, mean, bit, value, hashes>>

\* The outer loop of computeMean ends: return m / c (a division by zero panics).
MeanReturn ==
    /\ pc = "mean_loop"
    /\ ~Less(y, Bounds(img).MaxY)
    /\ IF c = 0
       THEN pc' = "panic" /\ UNCHANGED mean
       ELSE pc' = "computeHash" /\ mean' = Div(m, c)
    /\ UNCHANGED <<call, inputs, img, x, y, c, m, bit, value, hashes>>

\* computeHash up to the first loop test.
HashEnter ==
    /\ pc = "computeHash"
    /\ pc' = "hash_loop"
    /\ value' = Zero64
    /\ bit' = 0
    /\ y' = Bounds(img).MinY
    /\ x' = Bounds(img).MinX
    /\ UNCHANGED <<call, inputs, img, c, m, mean, hashes>>

\* One iteration of the inner loop of computeHash.
HashStep ==
    /\ pc = "hash_loop"
    /\ Less(y, Bounds(img).MaxY)
    /\ Less(x, Bounds(img).MaxX)
    /\ value' = IF Greater(ReadR(img, x, y), mean) THEN Or64(value, Shl1(bit)) ELSE value
    /\ bit' = bit + 1
    /\ x' = x + 1
    /\ UNCHANGED <<call, inputs, img, pc, y, c, m, mean, hashes>>

\* The inner loop of computeHash ends: next row.
HashNextRow ==
    /\ pc = "hash_loop"
    /\ Less(y, Bounds(img).MaxY)
    /\ ~Less(x, Bounds(img).MaxX)
    /\ y' = y + 1
    /\ x' = Bounds(img).MinX
    /\ UNCHANGED <<call, inputs, img, pc, c, m, mean, bit, value, hashes>>

\* The outer loop of computeHash ends: Compute returns value.
HashReturn ==
    /\ pc = "hash_loop"
    /\ ~Less(y, Bounds(img).MaxY)
    /\ pc' = "return"
    /\ hashes' = Append(hashes, value)
    /\ UNCHANGED <<call, inputs, img, x, y, c, m, mean, bit, value>>

\* A second call of Compute, on an image related to the first.
NextCall ==
    /\ pc = "return"
    /\ call = 1
    /\ call' = 2
    /\ \E i \in SecondImages(inputs[1]) : img' = i /\ inputs' = Append(inputs, i)
    /\ pc' = "Compute"
    /\ x' = 0 /\ y' = 0 /\ c' = 0 /\ m' = 0 /\ mean' = 0 /\ bit' = 0
    /\ value' = Zero64
    /\ UNCHANGED hashes

Next ==
    \/ ComputeEnter
    \/ MeanEnter
    \/ MeanStep
    \/ MeanNextRow
    \/ MeanReturn
    \/ HashEnter
    \/ HashStep
    \/ HashNextRow
    \/ HashReturn
    \/ NextCall

Spec == Init /\ [][Next]_vars

\* Compute is straight-line sequential code: a step that can be taken is taken.
FairSpec == Spec /\ WF_vars(Next)

\* --------------------------------------------------------------- properties
\* The red intensity of pixel i of the rectangle, pixels numbered row by row.
RedOf(im, i) == At(im, im.minX + (i % Size), im.minY + (i \div Size))[1]

Is8x8(im) == im.maxX - im.minX = Size /\ im.maxY - im.minY = Size

ZeroArea(im) == im.maxX = im.minX \/ im.maxY = im.minY

\* The unbounded sum of the reds of pixels 0..n-1.
PartialSum(im, n) ==
    LET sum[k \in 0..n] == IF k = 0 THEN 0 ELSE sum[k - 1] + RedOf(im, k - 1)
    IN sum[n]

TrueSum(im) == PartialSum(im, Size * Size)

PopCount(v) == Cardinality({i \in BitPos : v[i]})

\* The reduced image of the first call.
FirstReduced == grayscale(resize(inputs[1], Size, Size))

\* computeMean has just returned.
MeanKnown == pc = "computeHash"

\* C1: when computeHash returns on an 8x8 image, bit i of the value is set
\* exactly when the red of the pixel at (Min.X + i mod 8, Min.Y + i div 8) is
\* strictly greater than mean; the returned value is the one Compute returns.
BitsRowMajor ==
    (pc = "return" /\ Is8x8(img)) =>
        /\ \A i \in Cells : value[i] <=> (RedOf(img, i) > mean)
        /\ hashes[call] = value

BitsRowMajorWitness ==
    /\ pc = "return" /\ Is8x8(img)
    /\ img.minX = 1 /\ img.minY = 0
    /\ value[Size - 1] /\ ~value[0] /\ ~value[Size * (Size - 1)]
    /\ RedOf(img, Size - 1) > mean

\* C2: on an 8x8 image computeMean returns floor(S / 64), S the sum of the 64
\* reds: 64 * mean <= S < 64 * (mean + 1).
MeanIsFloor ==
    (MeanKnown /\ Is8x8(img)) =>
        /\ Size * Size * mean <= TrueSum(img)
        /\ TrueSum(img) < Size * Size * (mean + 1)

MeanIsFloorWitness ==
    /\ pc = "computeHash" /\ Is8x8(img)
    /\ TrueSum(img) % (Size * Size) = Size * Size - 1
    /\ mean > 0

\* C3: with a rectangle of width 0 or height 0, computeMean returns 0 without
\* entering its loop or dividing, computeHash visits no pixel and Compute
\* returns 0; there is no panic.
ZeroAreaHashZero ==
    (pc # "Compute" /\ ZeroArea(img)) =>
        /\ pc \notin {"mean_loop", "panic"}
        /\ m = 0 /\ mean = 0
        /\ bit = 0 /\ value = Zero64
        /\ pc = "return" => hashes[call] = Zero64

ZeroAreaWitness ==
    /\ pc = "return"
    /\ img.maxX = img.minX /\ img.maxY = img.minY + Size
    /\ y = img.maxY
    /\ hashes[call] = Zero64

Uniform(im) == Is8x8(im) /\ \A i \in Cells : RedOf(im, i) = RedOf(im, 0)

\* C4: an 8x8 image whose 64 reds all equal v gives mean = v and hash 0.
UniformHashZero ==
    /\ (MeanKnown /\ Uniform(img)) => mean = RedOf(img, 0)
    /\ (pc = "return" /\ Uniform(img)) =>
          (mean = RedOf(img, 0) /\ value = Zero64 /\ hashes[call] = Zero64)

UniformWitness ==
    /\ pc = "return" /\ Uniform(img)
    /\ RedOf(img, 0) = MaxIntensity
    /\ mean = MaxIntensity

\* C5: the hash of a non-degenerate 8x8 image never has all 64 bits set: the
\* bit of every minimum-intensity pixel is clear.
NeverAllBits ==
    (pc = "return" /\ Is8x8(img)) =>
        LET reds == {RedOf(img, i) : i \in Cells}
            lowest == CHOOSE v \in reds : \A w \in reds : v <= w
        IN /\ PopCount(hashes[call]) <= HashBits - 1
           /\ \A i \in Cells : RedOf(img, i) = lowest => ~hashes[call][i]

NeverAllBitsWitness ==
    /\ pc = "return" /\ Is8x8(img)
    /\ PopCount(hashes[call]) = HashBits - 1

Checkerboard(im) ==
    /\ Is8x8(im)
    /\ \E ph \in 0..1 : \A i \in Cells :
          RedOf(im, i) = IF ((i % Size) + (i \div Size)) % 2 = ph THEN MaxIntensity ELSE 0

\* C6: for a checkerboard of reds 0 and 65535 the mean is 32767 and the hash
\* has exactly the 32 bits of the 65535 cells set.
CheckerboardHash ==
    /\ (MeanKnown /\ Checkerboard(img)) => mean = 32767
    /\ (pc = "return" /\ Checkerboard(img)) =>
          /\ mean = 32767
          /\ \A i \in Cells : hashes[call][i] <=> (RedOf(img, i) = MaxIntensity)
          /\ PopCount(hashes[call]) = 32

CheckerboardWitness ==
    /\ pc = "return" /\ Checkerboard(img)
    /\ RedOf(img, 0) = MaxIntensity
    /\ hashes[call][0] /\ ~hashes[call][1]

SameReds(a, b) ==
    /\ Bounds(a) = Bounds(b)
    /\ \A i \in Cells : RedOf(a, i) = RedOf(b, i)

\* C7: two calls whose reduced images have the same red at every grid
\* position return the same hash, whatever the green, blue and alpha values
\* and the original dimensions are.
HashOfRedsOnly ==
    (pc = "return" /\ call = 2 /\ SameReds(FirstReduced, img)) =>
        hashes[1] = hashes[2]

HashOfRedsOnlyWitness ==
    /\ pc = "return" /\ call = 2 /\ SameReds(FirstReduced, img)
    /\ Is8x8(img)
    /\ \E i \in Cells : At(img, img.minX + (i % Size), img.minY + (i \div Size))[2] # RedOf(img, i)
    /\ inputs[2].maxX - inputs[2].minX # inputs[1].maxX - inputs[1].minX
    /\ PopCount(hashes[2]) \in 1..(HashBits - 1)

\* C8: in computeMean on an 8x8 image the accumulator equals the unbounded
\* partial sum after every addition and is at most 64 * 65535, so the mean
\* is that of unbounded arithmetic.
AccumulatorExact ==
    /\ (pc = "mean_loop" /\ Is8x8(img)) =>
          /\ m = PartialSum(img, (y - img.minY) * Size + (x - img.minX))
          /\ m <= Size * Size * MaxIntensity
    /\ (MeanKnown /\ Is8x8(img)) =>
          /\ m = TrueSum(img)
          /\ mean = TrueSum(img) \div (Size * Size)

AccumulatorWitness ==
    /\ pc = "mean_loop" /\ Is8x8(img)
    /\ m = Size * Size * MaxIntensity

RemapOf(a, b) ==
    /\ Bounds(a) = Bounds(b)
    /\ \E g \in 1..MaxGain, d \in (0 - MaxShift)..MaxShift :
          \A i \in Cells : RedOf(b, i) = g * RedOf(a, i) + d

\* C9: an 8x8 image and the image with every red r replaced by a * r + d
\* (a >= 1, all values within 0..65535) have the same hash.
RemapInvariant ==
    (pc = "return" /\ call = 2 /\ Is8x8(img) /\ RemapOf(FirstReduced, img)) =>
        hashes[1] = hashes[2]

RemapWitness ==
    /\ pc = "return" /\ call = 2 /\ Is8x8(img)
    /\ \A i \in Cells : RedOf(img, i) = 2 * RedOf(FirstReduced, i) + 1
    /\ PopCount(hashes[2]) \in 1..(HashBits - 1)
    /\ mean # 2 * (TrueSum(FirstReduced) \div (Size * Size)) + 1

\* C10: on an 8x8 image the bit counter of computeHash equals the number of
\* pixels visited so far, is in 0..63 whenever a pixel is about to be visited
\* (where 1 << bit is evaluated), is 64 when computeHash returns, and
\* computeHash always returns.
HashLoopCounts ==
    /\ [](  (pc = "hash_loop" /\ Is8x8(img)) =>
              /\ bit = (y - img.minY) * Size + (x - img.minX)
              /\ (y < img.maxY /\ x < img.maxX) => bit \in 0..(HashBits - 1))
    /\ []((pc = "return" /\ Is8x8(img)) => bit = HashBits)
    /\ [][(pc = "hash_loop" /\ x' # x /\ y' = y) => bit' = bit + 1]_vars
    /\ ((pc = "computeHash") ~> (pc = "return"))

HashLoopWitness ==
    /\ pc = "hash_loop" /\ Is8x8(img)
    /\ bit = HashBits - 1
    /\ value = Zero64
    /\ x = img.maxX - 1 /\ y = img.maxY - 1

TypeOK ==
    /\ call \in 1..2
    /\ pc \in {"Compute", "computeMean", "mean_loop", "computeHash", "hash_loop", "return", "panic"}
    /\ m \in 0..(Size * Size * MaxIntensity)
    /\ bit \in 0..HashBits
    /\ Len(hashes) <= 2
    /\ Len(inputs) = call
====
